---- MODULE Spec2Model ----
(***************************************************************************)
(* Model of drivers/thermal/gpu_cooling.c: the gpufreq cooling device, its *)
(* id allocator (gpufreq_idr under cooling_gpufreq_lock), the registration *)
(* protocol and the gpu_freq_callback slot.                                *)
(*                                                                         *)
(* Spec      threads running gpufreq_cooling_alloc / _register /           *)
(*           _unregister concurrently, one action per step between two     *)
(*           accesses to shared state.                                     *)
(* SpecSlot  threads calling register_gpu_freq_info.                       *)
(* SpecMany  the same program started with PreRegistered devices already   *)
(*           registered (ids 0 .. PreRegistered-1 in use).                 *)
(* SpecOps   the three cooling-device operations called on a registered    *)
(*           device, over the whole range of the machine words.            *)
(* SpecGov   register and unregister of one device, with threads of the    *)
(*           thermal core running the operations on it step by step.       *)
(* SpecIdr   release_idr called with any id on any state of the allocator. *)
(***************************************************************************)
EXTENDS Integers, Sequences, FiniteSets, TLC

(* ------------------------------ bounds -------------------------------- *)
\* concurrent callers
NumThreads == 2
\* gpufreq_cooling_device objects (memory slots kzalloc can hand out)
NumDevices == 2
\* distinct non-NULL functions passed to register_gpu_freq_info
NumFuns == 2
\* width of unsigned long, scaled down (64 on the arm64 build)
LongBits == 4
\* width of unsigned int, scaled down (32)
IntBits == 3
\* calls of register_gpu_freq_info in a run of SpecSlot
MaxInstalls == 4
\* devices registered before the run starts, in SpecMany
PreRegistered == 999
\* the highest value get_gpu_max_level returns, and the highest cooling
\* state requested, in SpecGov
MaxLevels == 3

(* ------------------------- program constants -------------------------- *)
EINVAL == 22
ENOMEM == 12
THERMAL_NAME_LENGTH == 20

Threads == 1 .. NumThreads
Dev == 1 .. NumDevices
NoDev == 0
NoThread == 0
\* a NULL function pointer
NULL == 0
Funs == 1 .. NumFuns

(* --------------------------- machine words ---------------------------- *)
Pow2(n) == IF n = 0 THEN 1 ELSE 2 ^ n
ULongMod == Pow2(LongBits)
UIntMod == Pow2(IntBits)
ULong == 0 .. ULongMod - 1
UInt == 0 .. UIntMod - 1
ULONG_MAX == ULongMod - 1
\* unsigned long subtraction: a - b modulo 2^LongBits
USub(a, b) == (a - b + ULongMod) % ULongMod
\* the conversion (unsigned int)x, and the store of an unsigned long into
\* an int-wide field
ToUInt(x) == x % UIntMod
\* the conversion (unsigned long)x of an unsigned int
ToULong(x) == x % ULongMod

(* ------------------------------ names --------------------------------- *)
Digit(n) == SubSeq(<<"0", "1", "2", "3", "4", "5", "6", "7", "8", "9">>, n + 1, n + 1)
RECURSIVE Decimal(_)
\* the %d conversion of a non-negative int
Decimal(n) == IF n < 10 THEN Digit(n) ELSE Decimal(n \div 10) \o Digit(n % 10)
\* "thermal-gpufreq-"
Prefix == <<"t", "h", "e", "r", "m", "a", "l", "-", "g", "p", "u", "f", "r", "e", "q", "-">>
\* snprintf(buf, size, ...): at most size - 1 characters are kept
SnprintfTruncate(size, str) == SubSeq(str, 1, IF Len(str) < size THEN Len(str) ELSE size - 1)
\* snprintf(dev_name, sizeof(dev_name), "thermal-gpufreq-%d", id)
DevName(id) == SnprintfTruncate(THERMAL_NAME_LENGTH, Prefix \o Decimal(id))

(* --------------------- struct thermal_cooling_device ------------------ *)
NullCdev == [kind |-> "NULL", type |-> <<>>, devdata |-> NoDev]
\* an ERR_PTR(-errno) value: not NULL, not a device
ErrCdev == [kind |-> "ERR_PTR", type |-> <<>>, devdata |-> NoDev]
Cdev(name, d) == [kind |-> "cdev", type |-> name, devdata |-> d]

(* ------------------- struct gpufreq_cooling_device -------------------- *)
\* the object kzalloc + memset return; mem = FALSE: not allocated (or freed)
ZeroDev ==
  [mem |-> FALSE, id |-> 0, cool_dev |-> NullCdev, gpufreq_state |-> 0,
   get_gpu_max_level |-> FALSE, get_gpu_current_max_level |-> FALSE,
   set_gpu_freq_idx |-> FALSE]

VARIABLES
  gpufreq_idr,           \* the ids marked in use in the idr
  cooling_gpufreq_lock,  \* the thread holding the mutex, or NoThread
  dev,                   \* the gpufreq_cooling_device objects
  registry,              \* the cooling devices the thermal core has published
  gpu_freq_callback,     \* the global callback slot
  installs,              \* history: the arguments of the calls of register_gpu_freq_info
  pc,                    \* per thread: position in the call it runs
  tcall,                 \* per thread: the function it runs
  tdev,                  \* per thread: gpufreq_dev
  tret,                  \* per thread: the value the call returned
  tidr,                  \* per thread: ret in get_idr, the value of idr_alloc
  tid,                   \* per thread: id in release_idr
  tcool,                 \* per thread: cool_dev
  tfun,                  \* per thread: fun
  call,                  \* the last cooling-device operation dispatched and its result
  gpu,                   \* the GPU driver behind the callbacks: what get_gpu_max_level
                         \* returns, and the level in effect
  targ,                  \* per thread: the state gpufreq_set_cur_state was called with
  tstate,                \* per thread: state in a cooling-device operation
  tmax,                  \* per thread: max_state in a cooling-device operation
  last_set               \* history: the argument of the last gpufreq_set_cur_state call
                         \* that returned, -1 when there is none

vars ==
  <<gpufreq_idr, cooling_gpufreq_lock, dev, registry, gpu_freq_callback, installs,
    pc, tcall, tdev, tret, tidr, tid, tcool, tfun, call, gpu, targ, tstate, tmax, last_set>>

shared == <<gpufreq_idr, cooling_gpufreq_lock, dev, registry>>
slot == <<gpu_freq_callback, installs>>
locals == <<tcall, tdev, tret, tidr, tid, tcool, tfun>>
gov == <<gpu, targ, tstate, tmax, last_set>>
\* a GPU with no level and nothing applied
NoGpu == [max |-> 0, level |-> 0]

NoCall ==
  [op |-> "none", dev |-> NoDev, arg |-> 0, max_level |-> 0, cur_level |-> 0,
   ret |-> 0, state |-> 0, levels |-> <<>>]

Init ==
  /\ gpufreq_idr = {}
  /\ cooling_gpufreq_lock = NoThread
  /\ dev = [d \in Dev |-> ZeroDev]
  /\ registry = {}
  /\ gpu_freq_callback = NULL
  /\ installs = <<>>
  /\ pc = [t \in Threads |-> "idle"]
  /\ tcall = [t \in Threads |-> "none"]
  /\ tdev = [t \in Threads |-> NoDev]
  /\ tret = [t \in Threads |-> 0]
  /\ tidr = [t \in Threads |-> 0]
  /\ tid = [t \in Threads |-> 0]
  /\ tcool = [t \in Threads |-> NullCdev]
  /\ tfun = [t \in Threads |-> NULL]
  /\ call = NoCall
  /\ gpu = NoGpu
  /\ targ = [t \in Threads |-> 0]
  /\ tstate = [t \in Threads |-> 0]
  /\ tmax = [t \in Threads |-> 0]
  /\ last_set = -1

(* ------------------------------ mutex --------------------------------- *)
MutexFreeNoWait == TRUE
\* mutex_lock(&cooling_gpufreq_lock) returns only when no thread holds it
MutexFree == cooling_gpufreq_lock = NoThread

(* ------------------------------- idr ---------------------------------- *)
\* idr_alloc(idr, NULL, 0, 0, GFP_KERNEL): the lowest id >= 0 not in use
IdrFirstFree(used) ==
  CHOOSE i \in 0 .. Cardinality(used) : i \notin used /\ \A j \in 0 .. i - 1 : j \in used

IdrRemoveNothing(used, id) == used
IdrRemoveOrLowest(used, id) ==
  IF id \in used \/ used = {} THEN used \ {id}
  ELSE used \ {CHOOSE i \in used : \A j \in used : i <= j}
\* idr_remove(idr, id): id is no longer in use; no effect when it was not
IdrRemove(used, id) == used \ {id}

\* a device some other thread's call is working on
Busy(d) == \E t \in Threads : pc[t] # "idle" /\ tdev[t] = d

Begin(t, fn, d) ==
  /\ pc[t] = "idle"
  /\ tcall' = [tcall EXCEPT ![t] = fn]
  /\ tdev' = [tdev EXCEPT ![t] = d]

(* ----------------------- gpufreq_cooling_alloc ------------------------ *)
\* kzalloc + memset: a zeroed object, or ERR_PTR(-ENOMEM) and no object.
\* A slot is handed out again once the call that freed it has returned.
gpufreq_cooling_alloc(t, d) ==
  /\ pc[t] = "idle"
  /\ ~dev[d].mem /\ ~Busy(d)
  /\ \E ok \in BOOLEAN :
       dev' = IF ok THEN [dev EXCEPT ![d] = [ZeroDev EXCEPT !.mem = TRUE]] ELSE dev
  /\ UNCHANGED <<gpufreq_idr, cooling_gpufreq_lock, registry, slot, pc, locals, call, gov>>

(* ---------------------- gpufreq_cooling_register ---------------------- *)
\* get_idr: mutex_lock, and idr_alloc looks for a free id (or fails)
get_idr_lock(t, d) ==
  /\ Begin(t, "register", d)
  /\ dev[d].mem /\ dev[d].cool_dev = NullCdev /\ ~Busy(d)
  /\ MutexFree
  /\ cooling_gpufreq_lock' = t
  /\ \E r \in {IdrFirstFree(gpufreq_idr), -ENOMEM} : tidr' = [tidr EXCEPT ![t] = r]
  /\ pc' = [pc EXCEPT ![t] = "idr_alloc"]
  /\ UNCHANGED <<gpufreq_idr, dev, registry, slot, tret, tid, tcool, tfun, call, gov>>

get_idr_unlock_on_success(t) ==
  /\ pc[t] = "idr_alloc"
  /\ gpufreq_idr' = IF tidr[t] < 0 THEN gpufreq_idr ELSE gpufreq_idr \cup {tidr[t]}
  /\ cooling_gpufreq_lock' = IF tidr[t] < 0 THEN cooling_gpufreq_lock ELSE NoThread
  /\ pc' = [pc EXCEPT ![t] = "get_idr_ret"]
  /\ UNCHANGED <<dev, registry, slot, locals, call, gov>>

\* get_idr: idr_alloc marks the id it found in use, mutex_unlock
get_idr_unlock(t) ==
  /\ pc[t] = "idr_alloc"
  /\ gpufreq_idr' = IF tidr[t] < 0 THEN gpufreq_idr ELSE gpufreq_idr \cup {tidr[t]}
  /\ cooling_gpufreq_lock' = NoThread
  /\ pc' = [pc EXCEPT ![t] = "get_idr_ret"]
  /\ UNCHANGED <<dev, registry, slot, locals, call, gov>>

register_alloc_failed_nofree(t) ==
  /\ pc[t] = "get_idr_ret"
  /\ tidr[t] < 0
  /\ tret' = [tret EXCEPT ![t] = -EINVAL]
  /\ pc' = [pc EXCEPT ![t] = "done"]
  /\ UNCHANGED <<shared, slot, tcall, tdev, tidr, tid, tcool, tfun, call, gov>>

\* get_idr returned an error: kfree(gpufreq_dev); return -EINVAL
register_alloc_failed(t) ==
  /\ pc[t] = "get_idr_ret"
  /\ tidr[t] < 0
  /\ dev' = [dev EXCEPT ![tdev[t]] = ZeroDev]
  /\ tret' = [tret EXCEPT ![t] = -EINVAL]
  /\ pc' = [pc EXCEPT ![t] = "done"]
  /\ UNCHANGED <<gpufreq_idr, cooling_gpufreq_lock, registry, slot, tcall, tdev, tidr, tid,
                 tcool, tfun, call, gov>>

\* what thermal_cooling_device_register returns: the new device; on
\* failure the thermal core returns ERR_PTR(-EINVAL / -ENOMEM / ...), the
\* convention of <linux/err.h> this file uses itself; NULL is the failure
\* value the caller tests for
PublishOutcomes(name, d) == {Cdev(name, d), ErrCdev, NullCdev}

\* *id = ret; snprintf; cool_dev = thermal_cooling_device_register(...);
\* if (!cool_dev) goes on to release_idr
register_publish(t) ==
  /\ pc[t] = "get_idr_ret"
  /\ tidr[t] >= 0
  /\ dev' = [dev EXCEPT ![tdev[t]].id = tidr[t]]
  /\ \E c \in PublishOutcomes(DevName(tidr[t]), tdev[t]) :
       /\ tcool' = [tcool EXCEPT ![t] = c]
       /\ registry' = IF c.kind = "cdev" THEN registry \cup {c} ELSE registry
       /\ pc' = [pc EXCEPT ![t] = IF c = NullCdev THEN "release_idr" ELSE "store_handle"]
  /\ UNCHANGED <<gpufreq_idr, cooling_gpufreq_lock, slot, tcall, tdev, tret, tidr, tid, tfun,
                 call, gov>>

\* gpufreq_dev->cool_dev = cool_dev
register_store_handle(t) ==
  /\ pc[t] = "store_handle"
  /\ dev' = [dev EXCEPT ![tdev[t]].cool_dev = tcool[t]]
  /\ pc' = [pc EXCEPT ![t] = "store_state"]
  /\ UNCHANGED <<gpufreq_idr, cooling_gpufreq_lock, registry, slot, locals, call, gov>>

\* gpufreq_dev->gpufreq_state = 0; return 0
register_store_state(t) ==
  /\ pc[t] = "store_state"
  /\ dev' = [dev EXCEPT ![tdev[t]].gpufreq_state = 0]
  /\ tret' = [tret EXCEPT ![t] = 0]
  /\ pc' = [pc EXCEPT ![t] = "done"]
  /\ UNCHANGED <<gpufreq_idr, cooling_gpufreq_lock, registry, slot, tcall, tdev, tidr, tid,
                 tcool, tfun, call, gov>>

(* ----------------------------- release_idr ---------------------------- *)
\* release_idr(&gpufreq_idr, gpufreq_dev->id): mutex_lock
release_idr_lock(t) ==
  /\ pc[t] = "release_idr"
  /\ MutexFree
  /\ cooling_gpufreq_lock' = t
  /\ tid' = [tid EXCEPT ![t] = dev[tdev[t]].id]
  /\ pc' = [pc EXCEPT ![t] = "idr_remove"]
  /\ UNCHANGED <<gpufreq_idr, dev, registry, slot, tcall, tdev, tret, tidr, tcool, tfun, call, gov>>

\* idr_remove(idr, id); mutex_unlock; back in register or unregister the
\* next statement is kfree
release_idr_unlock(t) ==
  /\ pc[t] = "idr_remove"
  /\ gpufreq_idr' = IdrRemove(gpufreq_idr, tid[t])
  /\ cooling_gpufreq_lock' = NoThread
  /\ pc' = [pc EXCEPT ![t] = IF tcall[t] = "release_idr" THEN "done" ELSE "kfree"]
  /\ UNCHANGED <<dev, registry, slot, locals, call, gov>>

\* kfree(gpufreq_dev); register returns -EINVAL, unregister returns
kfree_return(t) ==
  /\ pc[t] = "kfree"
  /\ dev' = [dev EXCEPT ![tdev[t]] = ZeroDev]
  /\ tret' = [tret EXCEPT ![t] = IF tcall[t] = "register" THEN -EINVAL ELSE 0]
  /\ pc' = [pc EXCEPT ![t] = "done"]
  /\ UNCHANGED <<gpufreq_idr, cooling_gpufreq_lock, registry, slot, tcall, tdev, tidr, tid,
                 tcool, tfun, call, gov>>

(* --------------------- gpufreq_cooling_unregister --------------------- *)
\* if (!cdev) return
unregister_null(t) ==
  /\ Begin(t, "unregister", NoDev)
  /\ tret' = [tret EXCEPT ![t] = 0]
  /\ pc' = [pc EXCEPT ![t] = "done"]
  /\ UNCHANGED <<shared, slot, tidr, tid, tcool, tfun, call, gov>>

\* gpufreq_dev = cdev->devdata;
\* thermal_cooling_device_unregister(gpufreq_dev->cool_dev)
unregister_unpublish(t, cdev) ==
  /\ Begin(t, "unregister", cdev.devdata)
  /\ cdev \in registry /\ cdev.devdata \in Dev /\ ~Busy(cdev.devdata)
  /\ registry' = registry \ {dev[cdev.devdata].cool_dev}
  /\ pc' = [pc EXCEPT ![t] = "release_idr"]
  /\ UNCHANGED <<gpufreq_idr, cooling_gpufreq_lock, dev, slot, tret, tidr, tid, tcool, tfun,
                 call, gov>>

(* ----------------------- register_gpu_freq_info ----------------------- *)
InstallAlways(fun, old) == fun
\* if (fun) gpu_freq_callback = fun: the value of the slot after the call
Install(fun, old) == IF fun # NULL THEN fun ELSE old

register_gpu_freq_info(t, fun) ==
  /\ Begin(t, "install", NoDev)
  /\ tfun' = [tfun EXCEPT ![t] = fun]
  /\ gpu_freq_callback' = Install(fun, gpu_freq_callback)
  /\ Len(installs) < MaxInstalls
  /\ installs' = Append(installs, fun)
  /\ tret' = [tret EXCEPT ![t] = 0]
  /\ pc' = [pc EXCEPT ![t] = "done"]
  /\ UNCHANGED <<shared, tidr, tid, tcool, call, gov>>

\* the call has returned to its caller
Return(t) ==
  /\ pc[t] = "done"
  /\ pc' = [pc EXCEPT ![t] = "idle"]
  /\ tcall' = [tcall EXCEPT ![t] = "none"]
  /\ tdev' = [tdev EXCEPT ![t] = NoDev]
  /\ tret' = [tret EXCEPT ![t] = 0]
  /\ tidr' = [tidr EXCEPT ![t] = 0]
  /\ tid' = [tid EXCEPT ![t] = 0]
  /\ tcool' = [tcool EXCEPT ![t] = NullCdev]
  /\ tfun' = [tfun EXCEPT ![t] = NULL]
  /\ targ' = [targ EXCEPT ![t] = 0]
  /\ tstate' = [tstate EXCEPT ![t] = 0]
  /\ tmax' = [tmax EXCEPT ![t] = 0]
  /\ UNCHANGED <<shared, slot, call, gpu, last_set>>

Next ==
  \/ \E t \in Threads, d \in Dev : gpufreq_cooling_alloc(t, d)
  \/ \E t \in Threads, d \in Dev : get_idr_lock(t, d)
  \/ \E t \in Threads : get_idr_unlock(t)
  \/ \E t \in Threads : register_alloc_failed(t)
  \/ \E t \in Threads : register_publish(t)
  \/ \E t \in Threads : register_store_handle(t)
  \/ \E t \in Threads : register_store_state(t)
  \/ \E t \in Threads : release_idr_lock(t)
  \/ \E t \in Threads : release_idr_unlock(t)
  \/ \E t \in Threads : kfree_return(t)
  \/ \E t \in Threads : unregister_null(t)
  \/ \E t \in Threads : \E cdev \in registry : unregister_unpublish(t, cdev)
  \/ \E t \in Threads : Return(t)

Spec == Init /\ [][Next]_vars

\* the callback slot: it shares no state with the rest
NextSlot ==
  \/ \E t \in Threads, fun \in Funs \cup {NULL} : register_gpu_freq_info(t, fun)
  \/ \E t \in Threads : Return(t)

SpecSlot == Init /\ [][NextSlot]_vars

(* -------------------- cooling device operations ----------------------- *)
\* the results a callback () -> unsigned int can give when it is present
Returned(present) == IF present THEN UInt ELSE {0}

get_max_state_zero_default(gd, state, m) ==
  [ret |-> 0, state |-> IF gd.get_gpu_max_level THEN ToULong(m) ELSE 0]

\* gpufreq_get_max_state(cdev, &state) on the object gd, *state = state on
\* entry, get_gpu_max_level() returning m
get_max_state(gd, state, m) ==
  [ret |-> 0, state |-> IF gd.get_gpu_max_level THEN ToULong(m) ELSE state]

InvertNoMinusOne(max_state, x) == USub(max_state, x)
\* (max_state - 1) - x in unsigned long
Invert(max_state, x) == USub(USub(max_state, 1), x)

CurStateAlwaysOk(gd) == 0
\* the value gpufreq_get_cur_state returns
CurStateRet(gd) == IF gd.get_gpu_current_max_level THEN 0 ELSE -EINVAL

get_cur_state_level(gd, state, m, l) ==
  [ret |-> CurStateRet(gd),
   state |-> IF gd.get_gpu_current_max_level THEN ToULong(l) ELSE state]

\* gpufreq_get_cur_state(cdev, &state): max_state = 0, then filled by
\* gpufreq_get_max_state; temp = get_gpu_current_max_level() returning l
get_cur_state(gd, state, m, l) ==
  LET max_state == get_max_state(gd, 0, m).state
  IN [ret |-> CurStateRet(gd),
      state |-> IF gd.get_gpu_current_max_level THEN Invert(max_state, ToULong(l)) ELSE state]

LevelInRangeStrict(level, max_state) == level > 0 /\ level < max_state
\* if (state >= 0 && state <= max_state), state an unsigned long
LevelInRange(level, max_state) == level >= 0 /\ level <= max_state

\* gpufreq_set_cur_state(cdev, state): the value stored in gpufreq_state
\* and the arguments of the calls of set_gpu_freq_idx, in order
set_cur_state(gd, state, m) ==
  LET max_state == get_max_state(gd, 0, m).state
      level == Invert(max_state, state)
  IN [ret |-> 0,
      gpufreq_state |-> ToUInt(state),
      levels |-> IF LevelInRange(level, max_state) /\ gd.set_gpu_freq_idx
                 THEN <<ToUInt(level)>> ELSE <<>>]

\* the values of *state a caller passes in
StateDefaults == {0, ULONG_MAX}

gpufreq_get_max_state(cdev) ==
  LET d == cdev.devdata
  IN /\ call.op = "none"
     /\ cdev \in registry /\ d \in Dev
     /\ \E state \in StateDefaults, m \in Returned(dev[d].get_gpu_max_level) :
          LET r == get_max_state(dev[d], state, m)
          IN call' = [op |-> "get_max_state", dev |-> d, arg |-> state, max_level |-> m,
                      cur_level |-> 0, ret |-> r.ret, state |-> r.state, levels |-> <<>>]
     /\ UNCHANGED <<shared, slot, pc, locals, gov>>

gpufreq_get_cur_state(cdev) ==
  LET d == cdev.devdata
  IN /\ call.op = "none"
     /\ cdev \in registry /\ d \in Dev
     /\ \E state \in StateDefaults, m \in Returned(dev[d].get_gpu_max_level),
           l \in Returned(dev[d].get_gpu_current_max_level) :
          LET r == get_cur_state(dev[d], state, m, l)
          IN call' = [op |-> "get_cur_state", dev |-> d, arg |-> state, max_level |-> m,
                      cur_level |-> l, ret |-> r.ret, state |-> r.state, levels |-> <<>>]
     /\ UNCHANGED <<shared, slot, pc, locals, gov>>

gpufreq_set_cur_state(cdev) ==
  LET d == cdev.devdata
  IN /\ call.op = "none"
     /\ cdev \in registry /\ d \in Dev
     /\ \E state \in ULong, m \in Returned(dev[d].get_gpu_max_level) :
          LET r == set_cur_state(dev[d], state, m)
          IN /\ dev' = [dev EXCEPT ![d].gpufreq_state = r.gpufreq_state]
             /\ call' = [op |-> "set_cur_state", dev |-> d, arg |-> state, max_level |-> m,
                         cur_level |-> 0, ret |-> r.ret, state |-> 0, levels |-> r.levels]
     /\ UNCHANGED <<gpufreq_idr, cooling_gpufreq_lock, registry, slot, pc, locals, gov>>

\* the callbacks of a device: any of them may be left NULL by the driver
Callbacks == [get_gpu_max_level : BOOLEAN, get_gpu_current_max_level : BOOLEAN,
              set_gpu_freq_idx : BOOLEAN]

\* device 1 allocated, its callbacks assigned by the driver, registered
\* with the first id
InitOps ==
  /\ gpufreq_idr = {0}
  /\ cooling_gpufreq_lock = NoThread
  /\ \E cb \in Callbacks :
       dev = [d \in Dev |->
                IF d = 1
                THEN [mem |-> TRUE, id |-> 0, cool_dev |-> Cdev(DevName(0), 1),
                      gpufreq_state |-> 0,
                      get_gpu_max_level |-> cb.get_gpu_max_level,
                      get_gpu_current_max_level |-> cb.get_gpu_current_max_level,
                      set_gpu_freq_idx |-> cb.set_gpu_freq_idx]
                ELSE ZeroDev]
  /\ registry = {Cdev(DevName(0), 1)}
  /\ gpu_freq_callback = NULL
  /\ installs = <<>>
  /\ pc = [t \in Threads |-> "idle"]
  /\ tcall = [t \in Threads |-> "none"]
  /\ tdev = [t \in Threads |-> NoDev]
  /\ tret = [t \in Threads |-> 0]
  /\ tidr = [t \in Threads |-> 0]
  /\ tid = [t \in Threads |-> 0]
  /\ tcool = [t \in Threads |-> NullCdev]
  /\ tfun = [t \in Threads |-> NULL]
  /\ call = NoCall
  /\ gpu = NoGpu
  /\ targ = [t \in Threads |-> 0]
  /\ tstate = [t \in Threads |-> 0]
  /\ tmax = [t \in Threads |-> 0]
  /\ last_set = -1

\* the operation has returned to the thermal core
Dispatched ==
  /\ call.op # "none"
  /\ call' = NoCall
  /\ UNCHANGED <<shared, slot, pc, locals, gov>>

NextOps ==
  \/ \E cdev \in registry : gpufreq_get_max_state(cdev)
  \/ \E cdev \in registry : gpufreq_get_cur_state(cdev)
  \/ \E cdev \in registry : gpufreq_set_cur_state(cdev)
  \/ Dispatched

SpecOps == InitOps /\ [][NextOps]_vars

\* PreRegistered devices were registered earlier and stay registered
InitMany ==
  /\ gpufreq_idr = 0 .. PreRegistered - 1
  /\ cooling_gpufreq_lock = NoThread
  /\ dev = [d \in Dev |-> ZeroDev]
  /\ registry = {Cdev(DevName(i), NoDev) : i \in 0 .. PreRegistered - 1}
  /\ gpu_freq_callback = NULL
  /\ installs = <<>>
  /\ pc = [t \in Threads |-> "idle"]
  /\ tcall = [t \in Threads |-> "none"]
  /\ tdev = [t \in Threads |-> NoDev]
  /\ tret = [t \in Threads |-> 0]
  /\ tidr = [t \in Threads |-> 0]
  /\ tid = [t \in Threads |-> 0]
  /\ tcool = [t \in Threads |-> NullCdev]
  /\ tfun = [t \in Threads |-> NULL]
  /\ call = NoCall
  /\ gpu = NoGpu
  /\ targ = [t \in Threads |-> 0]
  /\ tstate = [t \in Threads |-> 0]
  /\ tmax = [t \in Threads |-> 0]
  /\ last_set = -1

SpecMany == InitMany /\ [][Next]_vars

(* ------------- cooling device operations, step by step --------------- *)
\* the values get_gpu_max_level returns, and the states requested
Levels == 0 .. MaxLevels

\* gpufreq_set_cur_state(cdev, state), dispatched by the thermal core on a
\* published device: gpufreq_device->gpufreq_state = state
set_cur_state_store(t, cdev, state) ==
  /\ Begin(t, "set_cur_state", cdev.devdata)
  /\ cdev \in registry /\ cdev.devdata \in Dev
  /\ dev' = [dev EXCEPT ![cdev.devdata].gpufreq_state = ToUInt(state)]
  /\ targ' = [targ EXCEPT ![t] = state]
  /\ tstate' = [tstate EXCEPT ![t] = state]
  /\ pc' = [pc EXCEPT ![t] = "set_get_max"]
  /\ UNCHANGED <<gpufreq_idr, cooling_gpufreq_lock, registry, slot, tret, tidr, tid, tcool,
                 tfun, call, gpu, tmax, last_set>>

\* ret = gpufreq_get_max_state(cdev, &max_state);
\* state = max_state-1-state
set_cur_state_get_max(t) ==
  /\ pc[t] = "set_get_max"
  /\ LET max_state == get_max_state(dev[tdev[t]], 0, gpu.max).state
     IN /\ tmax' = [tmax EXCEPT ![t] = max_state]
        /\ tstate' = [tstate EXCEPT ![t] = Invert(max_state, tstate[t])]
  /\ pc' = [pc EXCEPT ![t] = "set_apply"]
  /\ UNCHANGED <<shared, slot, locals, call, gpu, targ, last_set>>

set_cur_state_apply_and_store(t) ==
  /\ pc[t] = "set_apply"
  /\ gpu' = IF LevelInRange(tstate[t], tmax[t]) /\ dev[tdev[t]].set_gpu_freq_idx
            THEN [gpu EXCEPT !.level = ToUInt(tstate[t])]
            ELSE gpu
  /\ last_set' = targ[t]
  /\ dev' = [dev EXCEPT ![tdev[t]].gpufreq_state = ToUInt(targ[t])]
  /\ tret' = [tret EXCEPT ![t] = 0]
  /\ pc' = [pc EXCEPT ![t] = "done"]
  /\ UNCHANGED <<gpufreq_idr, cooling_gpufreq_lock, registry, slot, tcall, tdev, tidr, tid,
                 tcool, tfun, call, targ, tstate, tmax>>

\* if (state >= 0 && state <= max_state) if (set_gpu_freq_idx)
\* set_gpu_freq_idx((unsigned int)state); return 0. The GPU driver puts
\* the level it is given into effect.
set_cur_state_apply(t) ==
  /\ pc[t] = "set_apply"
  /\ gpu' = IF LevelInRange(tstate[t], tmax[t]) /\ dev[tdev[t]].set_gpu_freq_idx
            THEN [gpu EXCEPT !.level = ToUInt(tstate[t])]
            ELSE gpu
  /\ last_set' = targ[t]
  /\ tret' = [tret EXCEPT ![t] = 0]
  /\ pc' = [pc EXCEPT ![t] = "done"]
  /\ UNCHANGED <<shared, slot, tcall, tdev, tidr, tid, tcool, tfun, call, targ, tstate, tmax>>

\* gpufreq_get_cur_state(cdev, &state) with *state = 0 on entry;
\* get_gpu_current_max_level returns the level in effect
get_cur_state_call(t, cdev) ==
  /\ Begin(t, "get_cur_state", cdev.devdata)
  /\ cdev \in registry /\ cdev.devdata \in Dev
  /\ LET gd == dev[cdev.devdata]
         r == get_cur_state(gd, 0, gpu.max, gpu.level)
     IN /\ tmax' = [tmax EXCEPT ![t] = get_max_state(gd, 0, gpu.max).state]
        /\ tstate' = [tstate EXCEPT ![t] = r.state]
        /\ tret' = [tret EXCEPT ![t] = r.ret]
  /\ pc' = [pc EXCEPT ![t] = "done"]
  /\ UNCHANGED <<shared, slot, tidr, tid, tcool, tfun, call, gpu, targ, last_set>>

\* gpufreq_get_max_state(cdev, &state) with *state = 0 on entry
get_max_state_call(t, cdev) ==
  /\ Begin(t, "get_max_state", cdev.devdata)
  /\ cdev \in registry /\ cdev.devdata \in Dev
  /\ LET r == get_max_state(dev[cdev.devdata], 0, gpu.max)
     IN /\ tstate' = [tstate EXCEPT ![t] = r.state]
        /\ tret' = [tret EXCEPT ![t] = r.ret]
  /\ pc' = [pc EXCEPT ![t] = "done"]
  /\ UNCHANGED <<shared, slot, tidr, tid, tcool, tfun, call, gpu, targ, tmax, last_set>>

\* device 1 allocated and its callbacks assigned by the GPU driver, which
\* reports gpu.max and runs at its lowest or its highest level; not yet
\* registered
InitGov ==
  /\ gpufreq_idr = {}
  /\ cooling_gpufreq_lock = NoThread
  /\ dev = [d \in Dev |->
              IF d = 1
              THEN [ZeroDev EXCEPT !.mem = TRUE, !.get_gpu_max_level = TRUE,
                                   !.get_gpu_current_max_level = TRUE,
                                   !.set_gpu_freq_idx = TRUE]
              ELSE ZeroDev]
  /\ registry = {}
  /\ gpu_freq_callback = NULL
  /\ installs = <<>>
  /\ pc = [t \in Threads |-> "idle"]
  /\ tcall = [t \in Threads |-> "none"]
  /\ tdev = [t \in Threads |-> NoDev]
  /\ tret = [t \in Threads |-> 0]
  /\ tidr = [t \in Threads |-> 0]
  /\ tid = [t \in Threads |-> 0]
  /\ tcool = [t \in Threads |-> NullCdev]
  /\ tfun = [t \in Threads |-> NULL]
  /\ call = NoCall
  /\ \E m \in Levels : \E l \in {0, m} : gpu = [max |-> m, level |-> l]
  /\ targ = [t \in Threads |-> 0]
  /\ tstate = [t \in Threads |-> 0]
  /\ tmax = [t \in Threads |-> 0]
  /\ last_set = -1

\* register and unregister of the device, with the thermal core
\* dispatching operations on it from the moment it is published;
\* unregister is called once the operations on the device have returned
NextGov ==
  \/ \E t \in Threads, d \in Dev : get_idr_lock(t, d)
  \/ \E t \in Threads : get_idr_unlock(t)
  \/ \E t \in Threads : register_alloc_failed(t)
  \/ \E t \in Threads : register_publish(t)
  \/ \E t \in Threads : register_store_handle(t)
  \/ \E t \in Threads : register_store_state(t)
  \/ \E t \in Threads : release_idr_lock(t)
  \/ \E t \in Threads : release_idr_unlock(t)
  \/ \E t \in Threads : kfree_return(t)
  \/ \E t \in Threads : \E cdev \in registry : unregister_unpublish(t, cdev)
  \/ \E t \in Threads : \E cdev \in registry, state \in Levels : set_cur_state_store(t, cdev, state)
  \/ \E t \in Threads : set_cur_state_get_max(t)
  \/ \E t \in Threads : set_cur_state_apply(t)
  \/ \E t \in Threads : \E cdev \in registry : get_cur_state_call(t, cdev)
  \/ \E t \in Threads : \E cdev \in registry : get_max_state_call(t, cdev)
  \/ \E t \in Threads : Return(t)

SpecGov == InitGov /\ [][NextGov]_vars

(* ------------------------ release_idr on any id ----------------------- *)
\* the ids NumDevices + 1 registrations can hold
Ids == 0 .. NumDevices

\* release_idr(&gpufreq_idr, id) called with any id: mutex_lock
release_idr(t, id) ==
  /\ Begin(t, "release_idr", NoDev)
  /\ MutexFree
  /\ cooling_gpufreq_lock' = t
  /\ tid' = [tid EXCEPT ![t] = id]
  /\ pc' = [pc EXCEPT ![t] = "idr_remove"]
  /\ UNCHANGED <<gpufreq_idr, dev, registry, slot, tret, tidr, tcool, tfun, call, gov>>

\* the allocator with any of the ids in use
InitIdr ==
  /\ gpufreq_idr \in SUBSET Ids
  /\ cooling_gpufreq_lock = NoThread
  /\ dev = [d \in Dev |-> ZeroDev]
  /\ registry = {}
  /\ gpu_freq_callback = NULL
  /\ installs = <<>>
  /\ pc = [t \in Threads |-> "idle"]
  /\ tcall = [t \in Threads |-> "none"]
  /\ tdev = [t \in Threads |-> NoDev]
  /\ tret = [t \in Threads |-> 0]
  /\ tidr = [t \in Threads |-> 0]
  /\ tid = [t \in Threads |-> 0]
  /\ tcool = [t \in Threads |-> NullCdev]
  /\ tfun = [t \in Threads |-> NULL]
  /\ call = NoCall
  /\ gpu = NoGpu
  /\ targ = [t \in Threads |-> 0]
  /\ tstate = [t \in Threads |-> 0]
  /\ tmax = [t \in Threads |-> 0]
  /\ last_set = -1

NextIdr ==
  \/ \E t \in Threads, id \in Ids : release_idr(t, id)
  \/ \E t \in Threads : release_idr_unlock(t)
  \/ \E t \in Threads : Return(t)

SpecIdr == InitIdr /\ [][NextIdr]_vars

(* ====================================================================== *)
(*                               Claims                                   *)
(* ====================================================================== *)

\* d has an id marked in use for it: from the moment get_idr marked it
\* until release_idr removes it
Holding(d) ==
  \/ \E t \in Threads :
       /\ tdev[t] = d
       /\ \/ pc[t] = "get_idr_ret" /\ tidr[t] >= 0
          \/ pc[t] \in {"store_handle", "store_state", "release_idr", "idr_remove"}
          \/ pc[t] = "done" /\ tcall[t] = "register" /\ tret[t] = 0
  \/ ~Busy(d) /\ dev[d].mem /\ dev[d].cool_dev # NullCdev

\* the id d holds: still in get_idr's ret before *id = ret
HeldId(d) ==
  IF \E t \in Threads : tdev[t] = d /\ pc[t] = "get_idr_ret"
  THEN tidr[CHOOSE t \in Threads : tdev[t] = d /\ pc[t] = "get_idr_ret"]
  ELSE dev[d].id

IdsHeld == {HeldId(d) : d \in {e \in Dev : Holding(e)}}

Published(d) == \E c \in registry : c.devdata = d

\* C1: at every instant, in every interleaving of register and unregister
\* calls, two different devices that hold an id (registered, or between
\* get_idr and release_idr) hold different ids, and each is marked in use.
C1_UniqueIds ==
  \A d1 \in Dev, d2 \in Dev :
    (d1 # d2 /\ Holding(d1) /\ Holding(d2)) =>
      /\ HeldId(d1) # HeldId(d2)
      /\ HeldId(d1) \in gpufreq_idr

\* two registrations run at once and both have been given an id
C1_Witness ==
  \E t1 \in Threads, t2 \in Threads :
    /\ t1 # t2
    /\ tcall[t1] = "register" /\ tcall[t2] = "register"
    /\ pc[t1] = "get_idr_ret" /\ tidr[t1] >= 0
    /\ pc[t2] \in {"get_idr_ret", "store_handle"} /\ Holding(tdev[t2])

PresentBoth(d) == dev[d].get_gpu_max_level /\ dev[d].get_gpu_current_max_level

\* C2: when max_level_query returns M and current_level_query returns L,
\* gpufreq_get_cur_state reports success with state = M - 1 - L, computed
\* in unsigned long (modulo 2^LongBits); it is the integer M - 1 - L
\* whenever L <= M - 1, so level 0 gives M - 1 and level M - 1 gives 0.
C2_CurStateInversion ==
  (call.op = "get_cur_state" /\ PresentBoth(call.dev)) =>
    /\ call.ret = 0
    /\ call.state = (call.max_level - 1 - call.cur_level) % ULongMod
    /\ call.cur_level <= call.max_level - 1 =>
         call.state = call.max_level - 1 - call.cur_level
    /\ (call.cur_level = 0 /\ call.max_level >= 1) => call.state = call.max_level - 1
    /\ (call.cur_level = call.max_level - 1) => call.state = 0

\* M = 4, L = 1 gives state 2
C2_Witness ==
  /\ call.op = "get_cur_state" /\ PresentBoth(call.dev)
  /\ call.max_level = 4 /\ call.cur_level = 1 /\ call.state = 2 /\ call.ret = 0

\* C3: with max_level_query returning M and set_level_request present,
\* gpufreq_set_cur_state(s) for 0 <= s <= M - 1 calls set_gpu_freq_idx
\* exactly once, with M - 1 - s, and returns 0.
C3_SetInvokesInverted ==
  (/\ call.op = "set_cur_state"
   /\ dev[call.dev].get_gpu_max_level /\ dev[call.dev].set_gpu_freq_idx
   /\ call.arg <= call.max_level - 1) =>
    /\ call.levels = <<call.max_level - 1 - call.arg>>
    /\ call.ret = 0

\* set_cur_state(0) with M = 4 has called set_gpu_freq_idx(3)
C3_Witness ==
  /\ call.op = "set_cur_state"
  /\ dev[call.dev].get_gpu_max_level /\ dev[call.dev].set_gpu_freq_idx
  /\ call.max_level = 4 /\ call.arg = 0 /\ call.levels = <<3>>

\* C4: for every requested state s > M - 1, over the whole unsigned long
\* range, gpufreq_set_cur_state(s) does not call set_gpu_freq_idx and
\* returns 0.
C4_OutOfRangeDropped ==
  (/\ call.op = "set_cur_state"
   /\ dev[call.dev].get_gpu_max_level
   /\ call.arg > call.max_level - 1) =>
    /\ call.levels = <<>>
    /\ call.ret = 0

RegisterReturned(t) == pc[t] = "done" /\ tcall[t] = "register"

\* C5 as claimed: when get_idr fails, register returns -EINVAL, nothing
\* is published, no id is left in use, and the device object is left
\* intact (still allocated) for the caller to dispose of.
C5_AllocFailureKeepsDevice ==
  \A t \in Threads :
    (RegisterReturned(t) /\ tidr[t] < 0) =>
      /\ tret[t] = -EINVAL
      /\ ~Published(tdev[t])
      /\ gpufreq_idr = IdsHeld
      /\ dev[tdev[t]].mem

\* C5 amended: when get_idr fails, register returns -EINVAL, nothing is
\* published, no id is left in use, and register has freed the device
\* object (kfree): the caller no longer owns it.
C5_AllocFailureFreesDevice ==
  \A t \in Threads :
    (RegisterReturned(t) /\ tidr[t] < 0) =>
      /\ tret[t] = -EINVAL
      /\ ~Published(tdev[t])
      /\ gpufreq_idr = IdsHeld
      /\ ~dev[tdev[t]].mem

\* a register call has returned after idr_alloc failed, while another
\* device is registered
C5_Witness ==
  \E t \in Threads :
    /\ RegisterReturned(t) /\ tidr[t] < 0
    /\ \E d \in Dev : d # tdev[t] /\ Published(d) /\ ~Busy(d)

\* C6: when publication to the thermal core fails in register, the id
\* allocated by get_idr is released before register returns, register
\* reports failure, and the device is not left half-registered: it holds
\* no id and has no registry handle.
C6_PublishFailureReleasesId ==
  \A t \in Threads :
    (RegisterReturned(t) /\ tidr[t] >= 0 /\ tcool[t].kind # "cdev") =>
      /\ tret[t] = -EINVAL
      /\ ~Holding(tdev[t])
      /\ gpufreq_idr = IdsHeld
      /\ dev[tdev[t]].cool_dev = NullCdev

\* the part of C6 the code keeps: when thermal_cooling_device_register
\* returns NULL, the id is released, the object freed and -EINVAL returned
PublishNullReleasesId ==
  \A t \in Threads :
    (RegisterReturned(t) /\ tidr[t] >= 0 /\ tcool[t] = NullCdev) =>
      /\ tret[t] = -EINVAL
      /\ ~Holding(tdev[t])
      /\ tid[t] = tidr[t]
      /\ gpufreq_idr = IdsHeld
      /\ ~dev[tdev[t]].mem

UnregisterReturned(t) == pc[t] = "done" /\ tcall[t] = "unregister" /\ tdev[t] \in Dev

\* C7: when gpufreq_cooling_unregister of a registered device has
\* returned, the device is unpublished and freed and its id is no longer
\* marked in use for it: the id is free, hence open to the next
\* idr_alloc, unless a registration running meanwhile already got it.
C7_UnregisterFreesId ==
  \A t \in Threads :
    UnregisterReturned(t) =>
      /\ ~Published(tdev[t])
      /\ ~dev[tdev[t]].mem
      /\ gpufreq_idr = IdsHeld
      /\ tid[t] \in gpufreq_idr =>
           \E e \in Dev : e # tdev[t] /\ Holding(e) /\ HeldId(e) = tid[t]
      /\ tid[t] \notin gpufreq_idr => IdrFirstFree(gpufreq_idr) <= tid[t]

\* unregister has returned, the id it released is free, and another
\* device is still registered
C7_Witness ==
  \E t \in Threads :
    /\ UnregisterReturned(t)
    /\ tid[t] \notin gpufreq_idr
    /\ gpufreq_idr # {}

\* C8: every successful idr_alloc returns the smallest id not in use
\* (first fit), and every device is published under the name
\* "thermal-gpufreq-<id>" with the whole id in decimal.
C8_FirstFitAndName ==
  /\ \A t \in Threads :
       (pc[t] = "idr_alloc" /\ tidr[t] >= 0) =>
         /\ tidr[t] \notin gpufreq_idr
         /\ \A j \in 0 .. tidr[t] - 1 : j \in gpufreq_idr
  /\ \A c \in registry :
       c.devdata \in Dev => c.type = Prefix \o Decimal(dev[c.devdata].id)

\* the part of C8 the code keeps: first fit, and the full name while the
\* id has at most THERMAL_NAME_LENGTH - 1 - Len(Prefix) digits
FirstFitAndShortName ==
  /\ \A t \in Threads :
       (pc[t] = "idr_alloc" /\ tidr[t] >= 0) =>
         /\ tidr[t] \notin gpufreq_idr
         /\ \A j \in 0 .. tidr[t] - 1 : j \in gpufreq_idr
  /\ \A c \in registry :
       (c.devdata \in Dev /\ Len(Decimal(dev[c.devdata].id)) < THERMAL_NAME_LENGTH - Len(Prefix)) =>
         c.type = Prefix \o Decimal(dev[c.devdata].id)

\* C9: gpufreq_get_max_state and gpufreq_set_cur_state return 0 for
\* every input and every combination of callbacks; gpufreq_get_cur_state
\* returns an error (-EINVAL) exactly when get_gpu_current_max_level is
\* absent.
C9_OnlyGetCurStateFails ==
  /\ call.op \in {"get_max_state", "set_cur_state"} => call.ret = 0
  /\ call.op = "get_cur_state" =>
       /\ call.ret # 0 <=> ~dev[call.dev].get_gpu_current_max_level
       /\ call.ret \in {0, -EINVAL}

\* get_cur_state has failed on a device without current_level_query
C9_Witness ==
  /\ call.op = "get_cur_state"
  /\ ~dev[call.dev].get_gpu_current_max_level
  /\ call.ret = -EINVAL

RECURSIVE LastNonNull(_)
\* the last non-NULL element of a sequence, NULL when there is none
LastNonNull(s) ==
  IF s = <<>> THEN NULL
  ELSE IF s[Len(s)] # NULL THEN s[Len(s)]
  ELSE LastNonNull(SubSeq(s, 1, Len(s) - 1))

\* C10: after any sequence of register_gpu_freq_info calls the slot
\* holds the argument of the last call that passed a non-NULL callback
\* (NULL if there was none), so a call passing NULL never clears or
\* changes it; every call returns 0.
C10_SlotKeepsLastNonNull ==
  /\ gpu_freq_callback = LastNonNull(installs)
  /\ \A t \in Threads : (pc[t] = "done" /\ tcall[t] = "install") => tret[t] = 0

\* a callback was installed, then NULL was installed, and the slot still
\* holds the callback
C10_Witness ==
  /\ Len(installs) >= 2
  /\ installs[Len(installs)] = NULL
  /\ installs[Len(installs) - 1] # NULL
  /\ gpu_freq_callback = installs[Len(installs) - 1]

\* C11: gpufreq_get_max_state returns 0 in all cases; when
\* get_gpu_max_level is present *state is the value it returned, and when
\* it is absent *state keeps the value the caller supplied.
C11_MaxStateOrDefault ==
  call.op = "get_max_state" =>
    /\ call.ret = 0
    /\ dev[call.dev].get_gpu_max_level => call.state = call.max_level
    /\ ~dev[call.dev].get_gpu_max_level => call.state = call.arg

\* get_max_state on a device without max_level_query, called with
\* *state = ULONG_MAX, has left ULONG_MAX there
C11_Witness ==
  /\ call.op = "get_max_state"
  /\ ~dev[call.dev].get_gpu_max_level
  /\ call.arg = ULONG_MAX /\ call.state = ULONG_MAX /\ call.ret = 0

\* C12: release_idr(id) on an id that is not in use (already released, or
\* never allocated) returns and leaves the ids in use as they were; on
\* any id it removes that id and no other, so releasing an id a second
\* time changes nothing more.
C12_ReleaseFreeIdNoop ==
  [][\A t \in Threads :
       (pc[t] = "idr_remove" /\ pc'[t] # "idr_remove") =>
         /\ pc'[t] = "done"
         /\ cooling_gpufreq_lock' = NoThread
         /\ gpufreq_idr' = gpufreq_idr \ {tid[t]}
         /\ tid[t] \notin gpufreq_idr => gpufreq_idr' = gpufreq_idr
         /\ IdrRemove(gpufreq_idr', tid[t]) = gpufreq_idr']_vars

\* two calls released the same id, one after the other, and the other
\* ids are still in use
C12_Witness ==
  \E t1 \in Threads, t2 \in Threads :
    /\ t1 # t2
    /\ pc[t1] = "done" /\ tcall[t1] = "release_idr"
    /\ pc[t2] = "done" /\ tcall[t2] = "release_idr"
    /\ tid[t1] = tid[t2]
    /\ gpufreq_idr = Ids \ {tid[t1]}

OpCalls == {"set_cur_state", "get_cur_state", "get_max_state"}

\* t is inside, or has just returned from, a cooling-device operation
InOperation(t) == pc[t] # "idle" /\ tcall[t] \in OpCalls

\* register has stored the registry handle and set gpufreq_state, and
\* unregister has not unpublished the device
FullyRegistered(d) ==
  /\ dev[d].mem
  /\ dev[d].cool_dev \in registry
  /\ ~\E u \in Threads :
        tdev[u] = d /\ tcall[u] = "register" /\ pc[u] \in {"store_handle", "store_state"}

\* C13: in every interleaving of register and unregister with the
\* operations the thermal core dispatches, an operation runs on a device
\* only while it is fully registered: after register stored the handle
\* and set gpufreq_state = 0, and before unregister unpublished it.
C13_OpsOnlyWhenRegistered ==
  \A t \in Threads : InOperation(t) => FullyRegistered(tdev[t])

\* the part of C13 the code keeps: no operation runs on a device that is
\* not published (before publication, after unpublication)
OpsOnlyWhenPublished ==
  \A t \in Threads : (InOperation(t) /\ pc[t] # "done") => Published(tdev[t])

\* C14: gpufreq_state of a live device changes only in the step of
\* gpufreq_set_cur_state that stores it; no step of register after
\* publication, no get_max_state or get_cur_state changes a stored value,
\* and what get_max_state and get_cur_state report is computed from the
\* callbacks alone.
C14_OnlySetChangesState ==
  [][/\ \A d \in Dev :
          (dev[d].mem /\ dev'[d].mem /\ dev'[d].gpufreq_state # dev[d].gpufreq_state) =>
            \E t \in Threads :
              pc[t] = "idle" /\ pc'[t] = "set_get_max" /\ tdev'[t] = d
     /\ \A t \in Threads :
          (pc[t] = "idle" /\ pc'[t] = "done") =>
            /\ tcall'[t] = "get_max_state" => tstate'[t] = gpu.max
            /\ tcall'[t] = "get_cur_state" =>
                 tstate'[t] = (gpu.max - 1 - gpu.level) % ULongMod]_vars

\* the part of C14 the code keeps: once register has returned, only
\* gpufreq_set_cur_state changes gpufreq_state
OnlySetChangesStateOnceRegistered ==
  [][\A d \in Dev :
       (FullyRegistered(d) /\ dev'[d].mem
        /\ dev'[d].gpufreq_state # dev[d].gpufreq_state) =>
         \E t \in Threads :
           pc[t] = "idle" /\ pc'[t] = "set_get_max" /\ tdev'[t] = d]_vars

\* C15: gpufreq_set_cur_state(s) leaves gpufreq_state = s for every s,
\* whether or not the level computed from s is in range and whether or
\* not set_gpu_freq_idx is present or called.
C15_StoresRequested ==
  call.op = "set_cur_state" => dev[call.dev].gpufreq_state = call.arg

\* the part of C15 the code keeps: the store is unconditional, and
\* gpufreq_state is s for every s an unsigned int holds
StoresRequestedUInt ==
  call.op = "set_cur_state" =>
    /\ dev[call.dev].gpufreq_state = call.arg % UIntMod
    /\ call.arg < UIntMod => dev[call.dev].gpufreq_state = call.arg

InIdr == {"idr_alloc", "idr_remove"}

\* C16: cooling_gpufreq_lock is held by a thread exactly while it is
\* between mutex_lock and mutex_unlock in get_idr or release_idr, by at
\* most one thread at a time; the id idr_alloc found is still the first
\* free one when it is marked, and the id release_idr removes is still in
\* use when it is removed; the lock is not held at the publish or
\* unpublish call nor after get_idr or release_idr returned, also when
\* idr_alloc failed.
C16_LockOnlyInsideIdr ==
  /\ \A t \in Threads : cooling_gpufreq_lock = t <=> pc[t] \in InIdr
  /\ \A t1 \in Threads, t2 \in Threads :
       (pc[t1] \in InIdr /\ pc[t2] \in InIdr) => t1 = t2
  /\ \A t \in Threads :
       (pc[t] = "idr_alloc" /\ tidr[t] >= 0) => tidr[t] = IdrFirstFree(gpufreq_idr)
  /\ \A t \in Threads : pc[t] = "idr_remove" => tid[t] \in gpufreq_idr
  /\ \A t \in Threads :
       pc[t] \in {"get_idr_ret", "store_handle", "store_state", "release_idr", "kfree",
                  "done"} => cooling_gpufreq_lock # t

\* one thread holds the lock in get_idr, idr_alloc having failed, while
\* another waits for the lock in release_idr
C16_Witness ==
  \E t1 \in Threads, t2 \in Threads :
    /\ t1 # t2
    /\ cooling_gpufreq_lock = t1 /\ pc[t1] = "idr_alloc" /\ tidr[t1] < 0
    /\ pc[t2] = "release_idr"

SetReturned(t) == pc[t] = "done" /\ tcall[t] = "set_cur_state"

\* C17: the steps of gpufreq_set_cur_state take no lock and each writes
\* one thing: the store writes gpufreq_state and leaves the GPU level,
\* the call of set_gpu_freq_idx changes the GPU level (to the level
\* computed from the call's own state) and leaves gpufreq_state; so two
\* concurrent calls can end with gpufreq_state from one and the level
\* from the other (the witness).
C17_SetStepsUnsynchronised ==
  [][\A t \in Threads :
       /\ (pc[t] = "idle" /\ pc'[t] = "set_get_max") =>
            /\ dev'[tdev'[t]].gpufreq_state = ToUInt(targ'[t])
            /\ gpu' = gpu
            /\ cooling_gpufreq_lock' = cooling_gpufreq_lock
       /\ (pc[t] = "set_apply" /\ pc'[t] = "done") =>
            /\ dev' = dev
            /\ gpu'.level \in {gpu.level, (tmax[t] - 1 - targ[t]) % ULongMod}
            /\ cooling_gpufreq_lock' = cooling_gpufreq_lock]_vars

\* two calls with states a # b, both in range, have returned on the
\* registered device: gpufreq_state = a, last level = M - 1 - b
C17_Witness ==
  \E t1 \in Threads, t2 \in Threads :
    /\ t1 # t2
    /\ SetReturned(t1) /\ SetReturned(t2) /\ tdev[t1] = tdev[t2]
    /\ FullyRegistered(tdev[t1])
    /\ targ[t1] # targ[t2]
    /\ targ[t1] <= gpu.max - 1 /\ targ[t2] <= gpu.max - 1
    /\ dev[tdev[t1]].gpufreq_state = targ[t1]
    /\ gpu.level = gpu.max - 1 - targ[t2]

AllReturned == \A t \in Threads : pc[t] = "idle"

\* C18: once all register and unregister calls have returned, the ids
\* marked in use are exactly the ids of the registered (published)
\* devices.
C18_NoIdLeak ==
  AllReturned => gpufreq_idr = {dev[d].id : d \in {e \in Dev : Published(e)}}

\* the part of C18 the code keeps: the only ids in use beyond those of
\* the published devices belong to devices whose publication returned
\* an ERR_PTR
NoIdLeakButErrPtr ==
  AllReturned =>
    gpufreq_idr = {dev[d].id : d \in {e \in Dev : Published(e) \/ dev[e].cool_dev = ErrCdev}}

\* C19: when the last gpufreq_set_cur_state call that returned had a
\* state s with 0 <= s <= M - 1, M being what get_gpu_max_level returns,
\* and the GPU is at the level it was given, gpufreq_get_cur_state
\* returns 0 and reports s.
C19_RoundTrip ==
  [][\A t \in Threads :
       (/\ pc[t] = "idle" /\ pc'[t] = "done" /\ tcall'[t] = "get_cur_state"
        /\ last_set >= 0 /\ last_set <= gpu.max - 1) =>
         /\ tstate'[t] = last_set
         /\ tret'[t] = 0]_vars

\* set_cur_state(2) returned with M >= 3, then get_cur_state reported 2
C19_Witness ==
  \E t \in Threads :
    /\ pc[t] = "done" /\ tcall[t] = "get_cur_state"
    /\ last_set = 2 /\ gpu.max >= 3 /\ gpu.level = gpu.max - 3
    /\ tstate[t] = 2 /\ tret[t] = 0

\* C20: the state gpufreq_get_cur_state reports is never above the
\* maximum state of the device: for M as get_gpu_max_level returns (0
\* when it is absent) and every current level L in [0, M], the reported
\* (M - 1) - L, in unsigned long, is <= M.
C20_CurStateAtMostMax ==
  (/\ call.op = "get_cur_state" /\ call.ret = 0
   /\ call.cur_level <= call.max_level) =>
    call.state <= call.max_level

\* the part of C20 the code keeps: for a level L <= M - 1 the reported
\* state is at most M - 1
CurStateBelowMaxInRange ==
  (/\ call.op = "get_cur_state" /\ call.ret = 0
   /\ call.cur_level <= call.max_level - 1) =>
    call.state <= call.max_level - 1
====
